---- MODULE Spec2Model ----
(***************************************************************************)
(* A model of ckd_prediction.py: the label-monotonization and windowing    *)
(* pipeline of main, the train_and_evaluate harness, the switch analysis   *)
(* and main's sequencing of the six models.                                *)
(*                                                                         *)
(* Python lists are TLA+ sequences (index 0 of the source is index 1       *)
(* here).  A pandas DataFrame is a sequence of row records in row order.   *)
(***************************************************************************)
EXTENDS Integers, Sequences, FiniteSets, TLC

VARIABLES
    \* ---- monotonic_labels applied to a sequence of raw flags
    labels, monotonic, mono_pc,
    \* ---- main, lines 453-503: the metadata table and what is built from it
    csv, embedding_store, window_size, max_patients,
    metadata, train_patients, val_patients, test_patients,
    train_sequences, val_sequences, test_sequences,
    train_items, val_items, test_items, data_pc,
    \* history variable: the table as line 461 leaves it, each visit with its label
    visits,
    \* ---- train_and_evaluate (lines 322-409): arguments, locals, the log
    epochs, patience, model_name,
    epoch, best_val_loss, epochs_no_improve, val_log, early_stop, train_pc,
    \* ---- the optimizer's learning rate and the ReduceLROnPlateau scheduler
    \* (lines 325-327, 361); lr_log[e + 1] is the rate after epoch e
    scheduler_patience, args_lr, lr, sched_best, num_bad_epochs, lr_log,
    \* ---- the models' parameters and the checkpoint files, by model name
    model_weights, checkpoint_files,
    \* ---- main, lines 548-591
    TORCHDIFFEQ_AVAILABLE, main_pc, next_model, results, main_log, summary,
    models, analysed, forward_called,
    \* ---- analyze_switches (lines 426-440): argument, result, position
    df_preds, df_analysis, switch_pc,
    \* ---- a call of clean_ckd_stage (lines 61-68): argument, outcome, position
    raw_stage, stage_clean, clean_pc

monoVars == <<labels, monotonic, mono_pc>>
dataVars == <<csv, embedding_store, window_size, max_patients,
              metadata, train_patients, val_patients, test_patients,
              train_sequences, val_sequences, test_sequences,
              train_items, val_items, test_items, data_pc, visits>>
argVars == <<epochs, patience, scheduler_patience, args_lr, TORCHDIFFEQ_AVAILABLE>>
schedVars == <<lr, sched_best, num_bad_epochs, lr_log>>
loopVars == <<model_name, epoch, best_val_loss, epochs_no_improve, val_log,
              early_stop, train_pc, schedVars>>
modelVars == <<model_weights, checkpoint_files, forward_called>>
mainVars == <<main_pc, next_model, results, main_log, summary, models, analysed>>
harnessVars == <<argVars, loopVars, modelVars, mainVars>>
switchVars == <<df_preds, df_analysis, switch_pc>>
cleanVars == <<raw_stage, stage_clean, clean_pc>>
vars == <<monoVars, dataVars, harnessVars, switchVars, cleanVars>>

(***************************************************************************)
(* Bounds of the model.                                                    *)
(***************************************************************************)
MaxLabels == 6          \* longest raw flag sequence given to monotonic_labels
MaxVisits == 3          \* most visits of the patient whose rows vary freely
NumPatients == 3        \* patients in the metadata file
MaxWindow == 2          \* largest --window-size
MaxEpochs == 4          \* largest --epochs
MaxPatience == 2        \* largest --patience
MaxLoss == 2            \* number of finite mean validation losses, less one
MaxSchedulerPatience == 1   \* largest --scheduler-patience
MaxRecords == 7         \* most test windows of one patient
MaxChars == 3           \* longest stage string

(***************************************************************************)
(* Values.  An optional value is None or Some(x); a float is a record so   *)
(* that nan and inf keep their comparison rules.                           *)
(***************************************************************************)
None == <<>>
Some(x) == <<x>>
Fin(x) == [k |-> "fin", v |-> x]
NaN == [k |-> "nan", v |-> 0]
Inf == [k |-> "inf", v |-> 0]
isnan(x) == x.k = "nan"
\* a < b on floats: false whenever either side is nan
FloatLess(a, b) ==
    IF isnan(a) \/ isnan(b) THEN FALSE
    ELSE IF a.k = "inf" THEN FALSE
    ELSE IF b.k = "inf" THEN TRUE
    ELSE a.v < b.v

Max2(a, b) == IF a >= b THEN a ELSE b
Min2(a, b) == IF a <= b THEN a ELSE b
Range(s) == {s[i] : i \in DOMAIN s}

RECURSIVE SeqsUpTo(_, _)
SeqsUpTo(S, n) ==
    IF n = 0 THEN {<<>>}
    ELSE LET shorter == SeqsUpTo(S, n - 1)
         IN  shorter \cup {Append(s, x) : s \in {t \in shorter : Len(t) = n - 1}, x \in S}

(***************************************************************************)
(* monotonic_labels (lines 80-87)                                          *)
(***************************************************************************)
RECURSIVE monotonic_loop(_, _, _)
monotonic_loop(rest, has_progressed, out) ==
    IF rest = <<>> THEN out
    ELSE LET progressed == has_progressed \/ Head(rest) = 1
         IN  monotonic_loop(Tail(rest), progressed,
                            Append(out, IF progressed THEN 1 ELSE 0))

\* a slip: the flag is appended before has_progressed is updated
RECURSIVE monotonic_loop_late(_, _, _)
monotonic_loop_late(rest, has_progressed, out) ==
    IF rest = <<>> THEN out
    ELSE monotonic_loop_late(Tail(rest), has_progressed \/ Head(rest) = 1,
                             Append(out, IF has_progressed THEN 1 ELSE 0))

monotonic_labels_late(raw) == monotonic_loop_late(raw, FALSE, <<>>)

monotonic_labels(raw) == monotonic_loop(raw, FALSE, <<>>)

(***************************************************************************)
(* Raw CSV cell values and clean_ckd_stage (lines 61-68).  A raw value is  *)
(* an int, a float, None or a str (a sequence of one-character strings).   *)
(* The result is Fin(n), NaN (np.nan) or Raise (an exception the except    *)
(* clause does not catch).                                                 *)
(***************************************************************************)
RawInt(n) == [t |-> "int", n |-> n, f |-> NaN, s |-> <<>>]
RawFloat(x) == [t |-> "float", n |-> 0, f |-> x, s |-> <<>>]
RawNone == [t |-> "None", n |-> 0, f |-> NaN, s |-> <<>>]
RawStr(chars) == [t |-> "str", n |-> 0, f |-> NaN, s |-> chars]

Raise == [k |-> "raise", v |-> 0]

DigitChars == <<"0", "1", "2", "3", "4", "5", "6", "7", "8", "9">>
isdigit(c) == c \in Range(DigitChars)
DigitVal(c) == (CHOOSE i \in DOMAIN DigitChars : DigitChars[i] = c) - 1

RECURSIVE ParseDigits(_, _)
ParseDigits(chars, acc) ==
    IF chars = <<>> THEN acc
    ELSE ParseDigits(Tail(chars), acc * 10 + DigitVal(Head(chars)))

\* int(value): "ok" with the integer, or the exception raised
int(value) ==
    CASE value.t = "int" -> [exc |-> "ok", n |-> value.n]
      [] value.t = "float" ->
            IF value.f.k = "nan" THEN [exc |-> "ValueError", n |-> 0]
            ELSE IF value.f.k = "inf" THEN [exc |-> "OverflowError", n |-> 0]
            ELSE [exc |-> "ok", n |-> value.f.v]
      [] value.t = "None" -> [exc |-> "TypeError", n |-> 0]
      [] OTHER ->
            IF value.s # <<>> /\ \A i \in DOMAIN value.s : isdigit(value.s[i])
            THEN [exc |-> "ok", n |-> ParseDigits(value.s, 0)]
            ELSE [exc |-> "ValueError", n |-> 0]

clean_ckd_stage(value) ==
    LET r == int(value)
    IN  IF r.exc = "ok" THEN Fin(r.n)
        ELSE IF r.exc # "ValueError" THEN Raise
        ELSE IF value.t = "str"
             THEN IF value.s = <<>> THEN Raise         \* value[0]: IndexError
                  ELSE IF isdigit(value.s[1]) THEN Fin(DigitVal(value.s[1]))
                  ELSE NaN
             ELSE NaN

(***************************************************************************)
(* DataFrame operations used by main.                                      *)
(***************************************************************************)
\* the key of a row under sort_values(by=...): the values of the columns
SortKey(row, by) == [i \in DOMAIN by |-> row[by[i]]]

KeyLess(a, b) ==
    \E i \in DOMAIN a :
        /\ a[i] < b[i]
        /\ \A j \in 1..(i - 1) : a[j] = b[j]

RECURSIVE InsertRow(_, _, _)
InsertRow(sorted, row, by) ==
    IF sorted = <<>> THEN <<row>>
    ELSE IF KeyLess(SortKey(row, by), SortKey(Head(sorted), by))
         THEN <<row>> \o sorted
         ELSE <<Head(sorted)>> \o InsertRow(Tail(sorted), row, by)

RECURSIVE sort_values(_, _)
sort_values(df, by) ==
    IF df = <<>> THEN <<>>
    ELSE InsertRow(sort_values(SubSeq(df, 1, Len(df) - 1), by), df[Len(df)], by)

\* the rows after row i that belong to the same PatientID group
LaterInGroup(df, i) == {k \in (i + 1)..Len(df) : df[k].PatientID = df[i].PatientID}
SetMin(S) == CHOOSE x \in S : \A y \in S : x <= y
SetMax(S) == CHOOSE x \in S : \A y \in S : x >= y

\* groupby('PatientID')[col].bfill() at row i
bfill(df, col, i) ==
    LET filled == {k \in LaterInGroup(df, i) \cup {i} : ~isnan(df[k][col])}
    IN  IF filled = {} THEN NaN ELSE df[SetMin(filled)][col]

\* groupby('PatientID')[col].shift(-1) at row i
shift_next(df, col, i) ==
    IF LaterInGroup(df, i) = {} THEN NaN
    ELSE Fin(df[SetMin(LaterInGroup(df, i))][col])

\* df with column col set row by row to value(i)
WithColumn(df, col, value(_)) == [i \in DOMAIN df |-> (col :> value(i)) @@ df[i]]

dropna(df, col) == SelectSeq(df, LAMBDA row : ~isnan(row[col]))

\* df[col].unique(): the values in order of first appearance
RECURSIVE unique(_, _)
unique(df, col) ==
    IF df = <<>> THEN <<>>
    ELSE LET before == unique(SubSeq(df, 1, Len(df) - 1), col)
             x == df[Len(df)][col]
         IN  IF x \in Range(before) THEN before ELSE Append(before, x)

\* sorted(list of integers)
RECURSIVE sorted(_)
sorted(S) ==
    IF S = {} THEN <<>> ELSE <<SetMin(S)>> \o sorted(S \ {SetMin(S)})

isin(df, col, values) == SelectSeq(df, LAMBDA row : row[col] \in values)

(***************************************************************************)
(* main, lines 456-464: stage cleaning, labels, next-visit labels.         *)
(***************************************************************************)
\* line 456: the apply raises when clean_ckd_stage raises on some row
CleanRaises(df) == \E i \in DOMAIN df : clean_ckd_stage(df[i].CKD_stage) = Raise

\* lines 456-461
LabelStages(df) ==
    LET cleaned == WithColumn(df, "CKD_stage_clean",
                              LAMBDA i : clean_ckd_stage(df[i].CKD_stage))
        ordered == sort_values(cleaned, <<"PatientID", "EventDate">>)
        filled  == WithColumn(ordered, "CKD_stage_clean",
                              LAMBDA i : bfill(ordered, "CKD_stage_clean", i))
        kept    == dropna(filled, "CKD_stage_clean")
        asint   == WithColumn(kept, "CKD_stage_clean",
                              LAMBDA i : kept[i].CKD_stage_clean.v)
    IN  WithColumn(asint, "label",
                   LAMBDA i : IF asint[i].CKD_stage_clean < 4 THEN 0 ELSE 1)

\* lines 462-464
NextLabels(df) ==
    LET shifted == WithColumn(df, "next_label", LAMBDA i : shift_next(df, "label", i))
        kept    == dropna(shifted, "next_label")
    IN  WithColumn(kept, "next_label", LAMBDA i : kept[i].next_label.v)

(***************************************************************************)
(* Embeddings: a file is named <<PatientID, EventDate>>; what np.load      *)
(* returns for it is Embedding(file), and np.zeros(dim) is Zeros.          *)
(***************************************************************************)
Embedding(file) == [kind |-> "embedding", file |-> file]
Zeros == [kind |-> "zeros", file |-> <<0, 0>>]

embedding_exists(row, store) == row.embedding_file \in store

load_embedding(file) == Embedding(file)

\* lines 466-481: the embedding filter, the --max-patients cut, the loading
FilterAndLoad(df, store, maxp) ==
    LET present == SelectSeq(df, LAMBDA row : embedding_exists(row, store))
        unique_patients == sorted(Range(unique(present, "PatientID")))
        cut == IF maxp # None /\ maxp[1] < Len(unique_patients)
               THEN isin(present, "PatientID",
                         Range(SubSeq(unique_patients, 1, Max2(maxp[1], 0))))
               ELSE present
    IN  WithColumn(cut, "embedding", LAMBDA i : load_embedding(cut[i].embedding_file))

(***************************************************************************)
(* train_test_split(patients, test_size = 1/den): every partition the      *)
(* shuffle can give; the empty set when it raises ValueError (no sample,   *)
(* or an empty train part).                                                *)
(***************************************************************************)
TestCount(n, den) == (n + den - 1) \div den

train_test_split(patients, den) ==
    LET n == Cardinality(patients)
    IN  IF n = 0 \/ n - TestCount(n, den) = 0 THEN {}
        ELSE {[train |-> patients \ T, test |-> T] :
                T \in {T \in SUBSET patients : Cardinality(T) = TestCount(n, den)}}

(***************************************************************************)
(* build_sequences (lines 89-102)                                          *)
(***************************************************************************)
Column(df, col) == [i \in DOMAIN df |-> df[i][col]]

\* the slip of supervising with the visits' own labels instead of next_label
group_windows_own(group, pid, W) ==
    LET embeddings == Column(group, "embedding")
        labs == monotonic_labels(Column(group, "label"))
    IN  [i \in 1..(Len(embeddings) - 1) |->
            [context |-> SubSeq(embeddings, Max2(0, i - W) + 1, i),
             target |-> labs[i],
             pid |-> pid,
             local_index |-> i - 1]]

\* lines 94-101 for one sorted group: i runs over range(1, len(embeddings))
group_windows(group, pid, W) ==
    LET embeddings == Column(group, "embedding")
        original_labels == Column(group, "next_label")
        labs == monotonic_labels(original_labels)
    IN  [i \in 1..(Len(embeddings) - 1) |->
            [context |-> SubSeq(embeddings, Max2(0, i - W) + 1, i),
             target |-> labs[i],
             pid |-> pid,
             local_index |-> i - 1]]

RECURSIVE sequences_of(_, _, _)
sequences_of(meta, pids, W) ==
    IF pids = <<>> THEN <<>>
    ELSE LET pid == Head(pids)
             group == sort_values(isin(meta, "PatientID", {pid}), <<"EventDate">>)
         IN  group_windows(group, pid, W) \o sequences_of(meta, Tail(pids), W)

build_sequences(meta, W) ==
    sequences_of(meta, sorted(Range(unique(meta, "PatientID"))), W)

(***************************************************************************)
(* pad_sequence (lines 104-108) and CKDSequenceDataset.__getitem__         *)
(***************************************************************************)
\* seq[-n:] for n >= 0
LastN(seq, n) ==
    IF n = 0 \/ n >= Len(seq) THEN seq ELSE SubSeq(seq, Len(seq) - n + 1, Len(seq))

\* the slip of padding on the right
pad_sequence_right(seq, length) ==
    LET padded == IF Len(seq) < length
                  THEN seq \o [i \in 1..(length - Len(seq)) |-> Zeros]
                  ELSE seq
    IN  LastN(padded, length)

pad_sequence(seq, length) ==
    LET padded == IF Len(seq) < length
                  THEN [i \in 1..(length - Len(seq)) |-> Zeros] \o seq
                  ELSE seq
    IN  LastN(padded, length)

getitem(data, idx, W) ==
    [context_padded |-> pad_sequence(data[idx].context, W),
     label |-> data[idx].target,
     pid |-> data[idx].pid,
     local_idx |-> data[idx].local_index]

(***************************************************************************)
(* train_and_evaluate (lines 322-409).  A model's parameters are named by  *)
(* the number of training epochs that produced them (0: as constructed);   *)
(* a checkpoint file holds the parameters saved into it, or None while it  *)
(* does not exist.                                                         *)
(***************************************************************************)
RNN == "ImprovedRNN"
ODE == "NeuralODE"
FiveModels == <<"ImprovedRNN", "ImprovedLSTM", "ImprovedTransformer", "MLP", "TCN">>
ModelNames == Range(FiveModels) \cup {ODE}

\* line 330: one path per model name under a fixed prefix
best_model_path(name) == name

\* the parameters in a checkpoint file an earlier run left at that path: no
\* epoch of this run produces them
StaleWeights == MaxEpochs + 1

\* the output directory before the run: empty, or holding an earlier run's files
OutputDirs == {[name \in ModelNames |-> None],
               [name \in ModelNames |-> Some(StaleWeights)]}

\* the slip of breaking one epoch late (> for >=)
ImprovementStepLate(avg_val_loss, best, count, limit) ==
    IF FloatLess(avg_val_loss, best)
    THEN [best |-> avg_val_loss, count |-> 0, save |-> TRUE, stop |-> FALSE]
    ELSE [best |-> best, count |-> count + 1, save |-> FALSE,
          stop |-> count + 1 > limit]

\* lines 363-372: the new best loss and counter, whether the checkpoint is
\* written and whether the loop breaks
ImprovementStep(avg_val_loss, best, count, limit) ==
    IF FloatLess(avg_val_loss, best)
    THEN [best |-> avg_val_loss, count |-> 0, save |-> TRUE, stop |-> FALSE]
    ELSE [best |-> best, count |-> count + 1, save |-> FALSE,
          stop |-> count + 1 >= limit]

(***************************************************************************)
(* ReduceLROnPlateau(optimizer, factor=0.5, patience=scheduler_patience),  *)
(* line 327, with the library's defaults: mode 'min', threshold 1e-4       *)
(* relative, cooldown 0, min_lr 0, eps 1e-8.  Learning rates are counted   *)
(* in units of eps / 2, so that halving a power of two is exact.           *)
(***************************************************************************)
ThresholdDen == 10000   \* threshold = 1 / ThresholdDen
EpsUnits == 2           \* eps in units of the learning rate

\* is_better(a, best): a < best * (1 - threshold)
is_better(a, best) ==
    IF isnan(a) \/ isnan(best) THEN FALSE
    ELSE IF a.k = "inf" THEN FALSE
    ELSE IF best.k = "inf" THEN TRUE
    ELSE a.v * ThresholdDen < best.v * (ThresholdDen - 1)

\* _reduce_lr: new_lr = max(old_lr * factor, min_lr), applied if it differs
\* from old_lr by more than eps
reduce_lr(old_lr) ==
    LET new_lr == old_lr \div 2
    IN  IF old_lr - new_lr > EpsUnits THEN new_lr ELSE old_lr

\* the slip of reducing as soon as num_bad_epochs reaches the patience
scheduler_step_eager(metrics, best, bad, rate, limit) ==
    LET better == is_better(metrics, best)
        count == IF better THEN 0 ELSE bad + 1
    IN  IF count >= limit /\ ~better
        THEN [best |-> IF better THEN metrics ELSE best, bad |-> 0, lr |-> reduce_lr(rate)]
        ELSE [best |-> IF better THEN metrics ELSE best, bad |-> count, lr |-> rate]

\* scheduler.step(metrics), line 361: the new best, num_bad_epochs and rate
scheduler_step(metrics, best, bad, rate, limit) ==
    LET better == is_better(metrics, best)
        count == IF better THEN 0 ELSE bad + 1
    IN  IF count > limit
        THEN [best |-> IF better THEN metrics ELSE best, bad |-> 0, lr |-> reduce_lr(rate)]
        ELSE [best |-> IF better THEN metrics ELSE best, bad |-> count, lr |-> rate]

\* np.mean(val_losses): a finite mean, inf, or nan (an empty validation set)
\* the finite means are spaced by one part in ThresholdDen + 1, so that some
\* improvements are smaller than the scheduler's threshold and some larger
LossValues == {Fin(ThresholdDen + 1 + x) : x \in 0..MaxLoss} \cup {NaN, Inf}

\* NeuralODEModel.forward raises ImportError without torchdiffeq (lines 312-313)
ForwardRaises(name) == name = ODE /\ ~TORCHDIFFEQ_AVAILABLE

\* lines 323-330: the locals of a call for model `name`
EnterTraining(name) ==
    /\ model_name' = name
    /\ epoch' = 0
    /\ best_val_loss' = Inf
    /\ epochs_no_improve' = 0
    /\ val_log' = <<>>
    /\ early_stop' = FALSE
    /\ lr' = args_lr
    /\ sched_best' = Inf
    /\ num_bad_epochs' = 0
    /\ lr_log' = <<args_lr>>
    /\ train_pc' = "loop"

\* the slip of the models sharing their parameters
UpdatedByStepShared(name) == ModelNames

\* lines 325, 344: the optimizer holds the parameters of the model passed in
\* and steps no others
UpdatedByStep(name) == {name}

\* lines 332-372: one pass of the epoch loop
RunEpoch ==
    /\ train_pc = "loop"
    /\ epoch < epochs
    /\ forward_called' = forward_called \cup {model_name}
    /\ IF ForwardRaises(model_name)
       THEN /\ train_pc' = "error"
            /\ UNCHANGED <<model_name, epoch, best_val_loss, epochs_no_improve,
                           val_log, early_stop, model_weights, checkpoint_files,
                           schedVars>>
       ELSE \E avg_val_loss \in LossValues :
              LET step == ImprovementStep(avg_val_loss, best_val_loss,
                                          epochs_no_improve, patience)
                  trained == model_weights[model_name] + 1
                  sched == scheduler_step(avg_val_loss, sched_best, num_bad_epochs,
                                          lr, scheduler_patience)
              IN  /\ model_weights' = [name \in ModelNames |->
                                           IF name \in UpdatedByStep(model_name)
                                           THEN trained ELSE model_weights[name]]
                  /\ val_log' = Append(val_log, avg_val_loss)
                  /\ epoch' = epoch + 1
                  /\ sched_best' = sched.best
                  /\ num_bad_epochs' = sched.bad
                  /\ lr' = sched.lr
                  /\ lr_log' = Append(lr_log, sched.lr)
                  /\ best_val_loss' = step.best
                  /\ epochs_no_improve' = step.count
                  /\ checkpoint_files' =
                        IF step.save
                        THEN [checkpoint_files EXCEPT
                                ![best_model_path(model_name)] = Some(trained)]
                        ELSE checkpoint_files
                  /\ early_stop' = step.stop
                  /\ train_pc' = IF step.stop THEN "reload" ELSE "loop"
                  /\ UNCHANGED model_name
    /\ UNCHANGED <<argVars, mainVars, monoVars, dataVars, switchVars, cleanVars>>

\* line 332: range(args.epochs) is exhausted
ExitLoop ==
    /\ train_pc = "loop"
    /\ epoch >= epochs
    /\ train_pc' = "reload"
    /\ UNCHANGED <<model_name, epoch, best_val_loss, epochs_no_improve, val_log,
                   early_stop, schedVars, argVars, modelVars, mainVars, monoVars, dataVars, switchVars, cleanVars>>

\* lines 374-376: torch.load of a file that does not exist raises
Reload ==
    /\ train_pc = "reload"
    /\ IF checkpoint_files[best_model_path(model_name)] = None
       THEN train_pc' = "error" /\ UNCHANGED model_weights
       ELSE /\ model_weights' =
                [model_weights EXCEPT
                    ![model_name] = checkpoint_files[best_model_path(model_name)][1]]
            /\ train_pc' = "evaluate"
    /\ UNCHANGED <<model_name, epoch, best_val_loss, epochs_no_improve, val_log,
                   early_stop, schedVars, argVars, checkpoint_files, forward_called,
                   mainVars, monoVars, dataVars, switchVars, cleanVars>>

\* lines 377-409: the test pass and the metrics, computed with the model as it is
Evaluate ==
    /\ train_pc = "evaluate"
    /\ forward_called' = forward_called \cup {model_name}
    /\ IF ForwardRaises(model_name)
       THEN train_pc' = "error" /\ UNCHANGED results
       ELSE /\ results' = [results EXCEPT ![model_name] =
                              Some([model_name |-> model_name,
                                    weights |-> model_weights[model_name]])]
            /\ train_pc' = "returned"
    /\ UNCHANGED <<model_name, epoch, best_val_loss, epochs_no_improve, val_log,
                   early_stop, schedVars, argVars, model_weights, checkpoint_files,
                   main_pc, next_model, main_log, summary, models, analysed,
                   monoVars, dataVars, switchVars, cleanVars>>

NextTrain ==
    \/ RunEpoch
    \/ ExitLoop
    \/ Reload
    \/ Evaluate

(***************************************************************************)
(* main, lines 548-591: the five models in turn, the Neural ODE if         *)
(* torchdiffeq is there, the summary, the switch analysis.                 *)
(***************************************************************************)
SkipNotice == "torchdiffeq not installed, skipping Neural ODE training."

\* lines 549-553: the call for the next of the five models
CallTrain ==
    /\ main_pc = "train"
    /\ train_pc \in {"idle", "returned"}
    /\ next_model <= Len(FiveModels)
    /\ EnterTraining(FiveModels[next_model])
    /\ next_model' = next_model + 1
    /\ UNCHANGED <<argVars, modelVars, main_pc, results, main_log, summary,
                   models, analysed, monoVars, dataVars, switchVars, cleanVars>>

\* line 555
ShouldTrainOde(available) == available

\* lines 555-559
OdeBranch ==
    /\ main_pc = "train"
    /\ train_pc \in {"idle", "returned"}
    /\ next_model > Len(FiveModels)
    /\ IF ShouldTrainOde(TORCHDIFFEQ_AVAILABLE)
       THEN /\ EnterTraining(ODE)
            /\ UNCHANGED <<main_log, results>>
       ELSE /\ main_log' = Append(main_log, SkipNotice)
            /\ results' = [results EXCEPT ![ODE] = None]
            /\ UNCHANGED loopVars
    /\ main_pc' = "summary"
    /\ UNCHANGED <<argVars, modelVars, next_model, summary, models, analysed,
                   monoVars, dataVars, switchVars, cleanVars>>

\* the slip of analysing the Neural ODE whether or not it was trained
AnalysisModelsAll(ode_results) == Append(FiveModels, ODE)

\* lines 577-585
AnalysisModels(ode_results) ==
    IF ode_results # None THEN Append(FiveModels, ODE) ELSE FiveModels

\* lines 561-585: the summary skips a result that is None
Summarize ==
    /\ main_pc = "summary"
    /\ train_pc \in {"idle", "returned"}
    /\ summary' = SelectSeq(Append(FiveModels, ODE), LAMBDA name : results[name] # None)
    /\ models' = AnalysisModels(results[ODE])
    /\ main_pc' = "analysis"
    /\ UNCHANGED <<argVars, loopVars, modelVars, next_model, results, main_log,
                   analysed, monoVars, dataVars, switchVars, cleanVars>>

\* lines 587-591: predict_label_switches and analyze_switches for the next model
AnalyseNext ==
    /\ main_pc = "analysis"
    /\ Len(analysed) < Len(models)
    /\ LET name == models[Len(analysed) + 1]
       IN  /\ forward_called' = forward_called \cup {name}
           /\ IF ForwardRaises(name)
              THEN main_pc' = "error" /\ UNCHANGED analysed
              ELSE /\ analysed' = Append(analysed, [name |-> name,
                                                    weights |-> model_weights[name]])
                   /\ main_pc' = IF Len(analysed') = Len(models) THEN "done" ELSE "analysis"
    /\ UNCHANGED <<argVars, loopVars, model_weights, checkpoint_files, next_model,
                   results, main_log, summary, models, monoVars, dataVars, switchVars, cleanVars>>

NextMain ==
    \/ CallTrain
    \/ OdeBranch
    \/ Summarize
    \/ AnalyseNext
    \/ RunEpoch
    \/ ExitLoop
    \/ Reload
    \/ Evaluate

InitCleanIdle ==
    /\ raw_stage = RawNone
    /\ stage_clean = NaN
    /\ clean_pc = "idle"

InitSwitchIdle ==
    /\ df_preds = <<>>
    /\ df_analysis = <<>>
    /\ switch_pc = "idle"

InitHarnessIdle ==
    /\ epochs = 0
    /\ patience = 0
    /\ TORCHDIFFEQ_AVAILABLE = FALSE
    /\ model_name = RNN
    /\ epoch = 0
    /\ best_val_loss = Inf
    /\ epochs_no_improve = 0
    /\ val_log = <<>>
    /\ early_stop = FALSE
    /\ scheduler_patience = 0
    /\ args_lr = 0
    /\ lr = 0
    /\ sched_best = Inf
    /\ num_bad_epochs = 0
    /\ lr_log = <<0>>
    /\ train_pc = "idle"
    /\ model_weights = [name \in ModelNames |-> 0]
    /\ checkpoint_files = [name \in ModelNames |-> None]
    /\ forward_called = {}
    /\ main_pc = "idle"
    /\ next_model = 1
    /\ results = [name \in ModelNames |-> None]
    /\ main_log = <<>>
    /\ summary = <<>>
    /\ models = <<>>
    /\ analysed = <<>>

\* the six models as constructed (line 547), no checkpoint written by this run
InitModels ==
    /\ model_weights = [name \in ModelNames |-> 0]
    /\ checkpoint_files \in OutputDirs
    /\ forward_called = {}
    /\ results = [name \in ModelNames |-> None]
    /\ main_log = <<>>
    /\ summary = <<>>
    /\ models = <<>>
    /\ analysed = <<>>

\* --lr in units of eps / 2: a rate two halvings can still change, and one
\* that every halving of a run can
LearningRates == {8, 64}

\* train_and_evaluate entered for the first model (line 549, lines 323-330)
InitTrain ==
    /\ epochs \in 0..MaxEpochs
    /\ patience \in 0..MaxPatience
    /\ scheduler_patience \in 0..MaxSchedulerPatience
    /\ args_lr \in LearningRates
    /\ TORCHDIFFEQ_AVAILABLE \in BOOLEAN
    /\ InitModels
    /\ model_name = RNN
    /\ epoch = 0
    /\ best_val_loss = Inf
    /\ epochs_no_improve = 0
    /\ val_log = <<>>
    /\ early_stop = FALSE
    /\ lr = args_lr
    /\ sched_best = Inf
    /\ num_bad_epochs = 0
    /\ lr_log = <<args_lr>>
    /\ train_pc = "loop"
    /\ main_pc = "train"
    /\ next_model = 2

\* main at line 548, with the short runs main's sequencing is checked on
MainEpochs == {1, 2}
MainPatience == {1}
MainLearningRates == {8}

InitMain ==
    /\ epochs \in MainEpochs
    /\ patience \in MainPatience
    /\ scheduler_patience \in MainPatience
    /\ args_lr \in MainLearningRates
    /\ TORCHDIFFEQ_AVAILABLE \in BOOLEAN
    /\ InitModels
    /\ model_name = RNN
    /\ epoch = 0
    /\ best_val_loss = Inf
    /\ epochs_no_improve = 0
    /\ val_log = <<>>
    /\ early_stop = FALSE
    /\ lr = args_lr
    /\ sched_best = Inf
    /\ num_bad_epochs = 0
    /\ lr_log = <<args_lr>>
    /\ train_pc = "idle"
    /\ main_pc = "train"
    /\ next_model = 1

(***************************************************************************)
(* The metadata files the pipeline is run on.  Patient 1 has up to         *)
(* MaxVisits visits whose stage cells and embedding files vary freely; the *)
(* other patients have plain timelines (stage d at visit d, every          *)
(* embedding present).  The CSV lists the rows newest first, so that the   *)
(* sorts of the source have work to do.                                    *)
(***************************************************************************)
StageInputs == {RawStr(<<"3", "a">>), RawStr(<<"4">>), RawStr(<<"x">>)}
PlainVisitCounts == {2, 5}
Patients == 1..NumPatients

CsvRow(p, d, stage) ==
    [PatientID |-> p, EventDate |-> d, CKD_stage |-> stage, embedding_file |-> <<p, d>>]

PlainStage(d) == RawStr(<<DigitChars[Min2(d, 5) + 1]>>)

Reverse(s) == [i \in DOMAIN s |-> s[Len(s) + 1 - i]]

RECURSIVE PlainRows(_, _)
PlainRows(p, m) ==
    IF p > NumPatients THEN <<>>
    ELSE [d \in 1..m |-> CsvRow(p, d, PlainStage(d))] \o PlainRows(p + 1, m)

CsvFile(stages, m) ==
    Reverse([d \in DOMAIN stages |-> CsvRow(1, d, stages[d])] \o PlainRows(2, m))

InitMono ==
    /\ labels = <<>>
    /\ monotonic = <<>>
    /\ mono_pc = "idle"

InitData ==
    /\ csv = <<>>
    /\ embedding_store = {}
    /\ window_size = 1
    /\ max_patients = None
    /\ metadata = <<>>
    /\ train_patients = {}
    /\ val_patients = {}
    /\ test_patients = {}
    /\ train_sequences = <<>>
    /\ val_sequences = <<>>
    /\ test_sequences = <<>>
    /\ train_items = <<>>
    /\ val_items = <<>>
    /\ test_items = <<>>
    /\ data_pc = "idle"
    /\ visits = <<>>

\* main after read_csv (line 455)
InitPipeline ==
    /\ \E stages \in SeqsUpTo(StageInputs, MaxVisits), m \in PlainVisitCounts :
          /\ csv = CsvFile(stages, m)
          /\ \E missing \in SUBSET {<<1, d>> : d \in DOMAIN stages} :
                embedding_store = {csv[i].embedding_file : i \in DOMAIN csv} \ missing
    /\ window_size \in 1..MaxWindow
    /\ max_patients \in {None, Some(NumPatients - 1)}
    /\ metadata = csv
    /\ train_patients = {}
    /\ val_patients = {}
    /\ test_patients = {}
    /\ train_sequences = <<>>
    /\ val_sequences = <<>>
    /\ test_sequences = <<>>
    /\ train_items = <<>>
    /\ val_items = <<>>
    /\ test_items = <<>>
    /\ data_pc = "loaded"
    /\ visits = <<>>

splitVars == <<train_patients, val_patients, test_patients>>
builtVars == <<train_sequences, val_sequences, test_sequences,
               train_items, val_items, test_items>>
inputVars == <<csv, embedding_store, window_size, max_patients>>
laterVars == <<visits, monoVars, harnessVars, switchVars, cleanVars>>

\* lines 456-461
CleanStages ==
    /\ data_pc = "loaded"
    /\ IF CleanRaises(metadata)
       THEN data_pc' = "error" /\ UNCHANGED <<metadata, visits>>
       ELSE /\ data_pc' = "labelled"
            /\ metadata' = LabelStages(metadata)
            /\ visits' = metadata'
    /\ UNCHANGED <<inputVars, splitVars, builtVars, monoVars, harnessVars, switchVars, cleanVars>>


\* lines 462-464
ShiftLabels ==
    /\ data_pc = "labelled"
    /\ metadata' = NextLabels(metadata)
    /\ data_pc' = "shifted"
    /\ UNCHANGED <<inputVars, splitVars, builtVars, laterVars>>

\* lines 466-481
FilterEmbeddings ==
    /\ data_pc = "shifted"
    /\ metadata' = FilterAndLoad(metadata, embedding_store, max_patients)
    /\ data_pc' = "filtered"
    /\ UNCHANGED <<inputVars, splitVars, builtVars, laterVars>>

\* the slip of carving the validation part out of all patients
SecondSplitInputAll(unique_patients, first) == unique_patients

\* line 486: the second partition is of the first one's train part
SecondSplitInput(unique_patients, first) == first.train

\* lines 484-486
SplitPatients ==
    /\ data_pc = "filtered"
    /\ LET unique_patients == Range(unique(metadata, "PatientID"))
       IN  IF train_test_split(unique_patients, 5) = {}
           THEN data_pc' = "error" /\ UNCHANGED splitVars
           ELSE \E first \in train_test_split(unique_patients, 5) :
                  LET rest == SecondSplitInput(unique_patients, first)
                  IN  IF train_test_split(rest, 10) = {}
                      THEN data_pc' = "error" /\ UNCHANGED splitVars
                      ELSE \E second \in train_test_split(rest, 10) :
                             /\ train_patients' = second.train
                             /\ val_patients' = second.test
                             /\ test_patients' = first.test
                             /\ data_pc' = "split"
    /\ UNCHANGED <<inputVars, metadata, builtVars, laterVars>>

train_metadata == isin(metadata, "PatientID", train_patients)
val_metadata == isin(metadata, "PatientID", val_patients)
test_metadata == isin(metadata, "PatientID", test_patients)

\* lines 488-499
BuildDatasets ==
    /\ data_pc = "split"
    /\ train_sequences' = build_sequences(train_metadata, window_size)
    /\ val_sequences' = build_sequences(val_metadata, window_size)
    /\ test_sequences' = build_sequences(test_metadata, window_size)
    /\ data_pc' = "built"
    /\ UNCHANGED <<inputVars, metadata, splitVars,
                   train_items, val_items, test_items, laterVars>>

\* a DataLoader pass over each dataset: __getitem__ for every index
GetItems ==
    /\ data_pc = "built"
    /\ train_items' = [idx \in DOMAIN train_sequences |->
                          getitem(train_sequences, idx, window_size)]
    /\ val_items' = [idx \in DOMAIN val_sequences |->
                          getitem(val_sequences, idx, window_size)]
    /\ test_items' = [idx \in DOMAIN test_sequences |->
                          getitem(test_sequences, idx, window_size)]
    /\ data_pc' = "delivered"
    /\ UNCHANGED <<inputVars, metadata, splitVars,
                   train_sequences, val_sequences, test_sequences, laterVars>>

NextData ==
    \/ CleanStages
    \/ ShiftLabels
    \/ FilterEmbeddings
    \/ SplitPatients
    \/ BuildDatasets
    \/ GetItems

InitSpecData == InitPipeline /\ InitMono /\ InitHarnessIdle /\ InitSwitchIdle /\ InitCleanIdle

SpecData == InitSpecData /\ [][NextData]_vars

(***************************************************************************)
(* monotonic_labels on its own: every flag sequence up to MaxLabels.       *)
(***************************************************************************)
InitFlags ==
    /\ labels \in SeqsUpTo({0, 1}, MaxLabels)
    /\ monotonic = <<>>
    /\ mono_pc = "call"

CallMonotonic ==
    /\ mono_pc = "call"
    /\ monotonic' = monotonic_labels(labels)
    /\ mono_pc' = "done"
    /\ UNCHANGED <<labels, dataVars, harnessVars, switchVars, cleanVars>>

InitSpecMono == InitFlags /\ InitData /\ InitHarnessIdle /\ InitSwitchIdle /\ InitCleanIdle

NextMono == CallMonotonic

SpecMono == InitSpecMono /\ [][NextMono]_vars

(***************************************************************************)
(* One call of train_and_evaluate, and main's sequence of calls.           *)
(***************************************************************************)
InitSpecTrain == InitTrain /\ InitMono /\ InitData /\ InitSwitchIdle /\ InitCleanIdle

SpecTrain == InitSpecTrain /\ [][NextTrain]_vars

InitSpecMain == InitMain /\ InitMono /\ InitData /\ InitSwitchIdle /\ InitCleanIdle

SpecMain == InitSpecMain /\ [][NextMain]_vars

\* main runs its statements one after the other until it returns or raises
SpecMainFair == SpecMain /\ WF_vars(NextMain)

(***************************************************************************)
(* analyze_switches (lines 426-440) on the frame predict_label_switches    *)
(* returns (lines 411-424): one record per test window.                    *)
(***************************************************************************)
PredRecord(pid, local_idx, true_label, pred_label) ==
    [PatientID |-> pid, LocalIndex |-> local_idx,
     TrueLabel |-> true_label, PredLabel |-> pred_label]

\* Series.min(): nan for an empty selection
SeriesMin(S) == IF S = {} THEN NaN ELSE Fin(SetMin(S))

\* the slip of taking the last index with a 1
first_switch_last(group, col) ==
    LET m == IF Range(Column(SelectSeq(group, LAMBDA r : r[col] = 1), "LocalIndex")) = {}
             THEN NaN
             ELSE Fin(SetMax(Range(Column(SelectSeq(group, LAMBDA r : r[col] = 1), "LocalIndex"))))
    IN  IF ~isnan(m) THEN Some(m.v) ELSE None

\* lines 431-436: group[group[col] == 1]["LocalIndex"].min(), None if null
first_switch(group, col) ==
    LET m == SeriesMin(Range(Column(SelectSeq(group, LAMBDA r : r[col] = 1), "LocalIndex")))
    IN  IF ~isnan(m) THEN Some(m.v) ELSE None

\* line 439: the columns' difference, null where either operand is null
masked_sub(a, b) == IF a = None \/ b = None THEN None ELSE Some(a[1] - b[1])

\* lines 428-440: the groups in ascending PatientID order
analyze_switches(df) ==
    LET pids == sorted(Range(Column(df, "PatientID")))
        analysis == [g \in DOMAIN pids |->
            LET group == sort_values(isin(df, "PatientID", {pids[g]}), <<"LocalIndex">>)
            IN  [PatientID |-> pids[g],
                 TrueSwitchIdx |-> first_switch(group, "TrueLabel"),
                 PredSwitchIdx |-> first_switch(group, "PredLabel")]]
    IN  [g \in DOMAIN analysis |->
            [PatientID |-> analysis[g].PatientID,
             TrueSwitchIdx |-> analysis[g].TrueSwitchIdx,
             PredSwitchIdx |-> analysis[g].PredSwitchIdx,
             SwitchDifference |-> masked_sub(analysis[g].PredSwitchIdx,
                                             analysis[g].TrueSwitchIdx)]]

\* a test patient's records: local indexes 0..n-1 (line 101), the true labels
\* monotonic with their first 1 at first_true (line 96), a 1 predicted at the
\* indexes in predicted
PatientRecords(pid, n, first_true, predicted) ==
    [i \in 1..n |-> PredRecord(pid, i - 1,
                               IF i - 1 >= first_true THEN 1 ELSE 0,
                               IF (i - 1) \in predicted THEN 1 ELSE 0)]

\* the test windows of two patients, the second with at most one window; the
\* records in the loader's order or in the opposite one
InitSwitch ==
    /\ switch_pc = "called"
    /\ df_analysis = <<>>
    /\ \E n \in 1..MaxRecords, m \in 0..1 :
       \E first_true \in 0..n, predicted \in SUBSET (0..(n - 1)),
          other_true \in 0..m, other_pred \in SUBSET (0..(m - 1)),
          reversed \in BOOLEAN :
            LET records == PatientRecords(1, m, other_true, other_pred)
                               \o PatientRecords(2, n, first_true, predicted)
            IN  df_preds = IF reversed THEN Reverse(records) ELSE records

\* line 589
CallAnalyze ==
    /\ switch_pc = "called"
    /\ df_analysis' = analyze_switches(df_preds)
    /\ switch_pc' = "done"
    /\ UNCHANGED <<df_preds, monoVars, dataVars, harnessVars, cleanVars>>

NextSwitch == CallAnalyze

InitSpecSwitch == InitSwitch /\ InitMono /\ InitData /\ InitHarnessIdle /\ InitCleanIdle

SpecSwitch == InitSpecSwitch /\ [][NextSwitch]_vars

(***************************************************************************)
(* One call of clean_ckd_stage (lines 61-68) on a cell of the CKD_stage    *)
(* column: an integer, a float (nan for an empty cell), None, a string.    *)
(***************************************************************************)
StageChars == {"3", "4", "a", "."}

RawValues ==
    {RawInt(n) : n \in 0..5}
        \cup {RawFloat(x) : x \in {Fin(n) : n \in 0..5} \cup {NaN, Inf}}
        \cup {RawNone}
        \cup {RawStr(chars) : chars \in SeqsUpTo(StageChars, MaxChars)}

InitClean ==
    /\ raw_stage \in RawValues
    /\ stage_clean = NaN
    /\ clean_pc = "called"

\* line 456: clean_ckd_stage applied to the cell
CallClean ==
    /\ clean_pc = "called"
    /\ stage_clean' = clean_ckd_stage(raw_stage)
    /\ clean_pc' = "done"
    /\ UNCHANGED <<raw_stage, monoVars, dataVars, harnessVars, switchVars>>

NextClean == CallClean

InitSpecClean == InitClean /\ InitMono /\ InitData /\ InitHarnessIdle /\ InitSwitchIdle

SpecClean == InitSpecClean /\ [][NextClean]_vars

(***************************************************************************)
(* Properties of monotonic_labels.                                         *)
(***************************************************************************)
\* position of the first 1 of a flag sequence, 0 when it holds no 1
FirstOne(flags) ==
    IF \E i \in DOMAIN flags : flags[i] = 1
    THEN SetMin({i \in DOMAIN flags : flags[i] = 1})
    ELSE 0

\* C1: the output of monotonic_labels has the input's length, never decreases,
\* and its first 1 stands where the input's first 1 stands (no 1 in the output
\* exactly when the input holds none).
MonotonicLabelsCorrect ==
    mono_pc = "done" =>
        /\ Len(monotonic) = Len(labels)
        /\ \A i \in DOMAIN monotonic : monotonic[i] \in {0, 1}
        /\ \A i, j \in DOMAIN monotonic : i <= j => monotonic[i] <= monotonic[j]
        /\ FirstOne(monotonic) = FirstOne(labels)

MonotonicLabelsWitness ==
    /\ mono_pc = "done"
    /\ labels = <<0, 0, 1, 0, 1>>
    /\ monotonic = <<0, 0, 1, 1, 1>>

(***************************************************************************)
(* Properties of the windowing pipeline.  The rows of a patient are        *)
(* addressed by their chronological position, counted from 0 as            *)
(* local_index is.                                                         *)
(***************************************************************************)
PatientRows(df, p) == {df[i] : i \in {k \in DOMAIN df : df[k].PatientID = p}}
Position(df, r) ==
    Cardinality({q \in PatientRows(df, r.PatientID) : q.EventDate < r.EventDate})
RowAt(df, p, k) == CHOOSE r \in PatientRows(df, p) : Position(df, r) = k
RowCount(df, p) == Cardinality(PatientRows(df, p))
\* the rows of every patient in chronological order
Histories(df) ==
    [p \in Patients |->
        LET rows == PatientRows(df, p)
        IN  [k \in 1..Cardinality(rows) |->
                CHOOSE r \in rows :
                    Cardinality({q \in rows : q.EventDate < r.EventDate}) = k - 1]]

Built == data_pc \in {"built", "delivered"}
Datasets == <<train_sequences, val_sequences, test_sequences>>
Delivered == <<train_items, val_items, test_items>>
SplitSets == <<train_patients, val_patients, test_patients>>
AllWindows == Range(train_sequences) \cup Range(val_sequences) \cup Range(test_sequences)

\* C2: every delivered context has exactly window_size vectors; with a history
\* of h = local_idx + 1 visits, h < W gives W - h zero vectors followed by the
\* history in order, and h >= W gives the W most recent embeddings in order.
ContextLengthExact ==
    data_pc = "delivered" =>
        LET hist == Histories(metadata)
        IN  \A s \in 1..3 : \A idx \in DOMAIN Delivered[s] :
            LET item == Delivered[s][idx]
                ctx == item.context_padded
                W == window_size
                h == item.local_idx + 1
            IN  /\ Len(ctx) = W
                /\ h < W =>
                      /\ \A t \in 1..(W - h) : ctx[t] = Zeros
                      /\ \A t \in 1..h :
                            ctx[W - h + t] = hist[item.pid][t].embedding
                /\ h >= W =>
                      \A t \in 1..W :
                          ctx[t] = hist[item.pid][h - W + t].embedding

ContextLengthWitness ==
    /\ data_pc = "delivered"
    /\ \E idx \in DOMAIN train_items :
          /\ train_items[idx].local_idx + 1 < window_size
          /\ train_items[idx].context_padded[1] = Zeros
    /\ \E idx \in DOMAIN train_items : train_items[idx].local_idx + 1 > window_size

\* a patient all of whose visits in the CSV have a resolvable stage and an
\* embedding file, and whom the --max-patients cut keeps
Usable(p) ==
    /\ PatientRows(csv, p) # {}
    /\ \A r \in PatientRows(csv, p) :
          /\ clean_ckd_stage(r.CKD_stage).k = "fin"
          /\ r.embedding_file \in embedding_store
    /\ p \in train_patients \cup val_patients \cup test_patients

WindowCount(p) == Cardinality({w \in AllWindows : w.pid = p})

\* C3: a patient with n chronological visits, all with resolvable stages and
\* existing embeddings, yields exactly n - 1 windows (5 visits, 4 windows).
WindowsPerPatient ==
    Built => \A p \in Patients : Usable(p) => WindowCount(p) = RowCount(csv, p) - 1

\* what the code yields instead: one window fewer, n - 2
WindowsPerPatientBuilt ==
    Built => \A p \in Patients : Usable(p) => WindowCount(p) = RowCount(csv, p) - 2

FiveVisitsThreeWindows ==
    /\ Built
    /\ \E p \in Patients : Usable(p) /\ RowCount(csv, p) = 5 /\ WindowCount(p) = 3

\* C4: the three patient sets are pairwise disjoint and together are the
\* patients left after filtering; every window of a split's dataset carries a
\* patient of that split only, and its context holds that patient's embeddings.
SplitsDisjoint ==
    data_pc \in {"split", "built", "delivered"} =>
        /\ \A a, b \in 1..3 : a # b => SplitSets[a] \cap SplitSets[b] = {}
        /\ train_patients \cup val_patients \cup test_patients
              = {metadata[i].PatientID : i \in DOMAIN metadata}
        /\ \A s \in 1..3 : \A idx \in DOMAIN Datasets[s] :
              LET w == Datasets[s][idx]
              IN  /\ \A b \in 1..3 : w.pid \in SplitSets[b] <=> b = s
                  /\ \A t \in DOMAIN w.context : w.context[t].file[1] = w.pid
        /\ \A s \in 1..3 : \A idx \in DOMAIN Delivered[s] :
              LET item == Delivered[s][idx]
              IN  /\ item.pid \in SplitSets[s]
                  /\ \A t \in DOMAIN item.context_padded :
                        item.context_padded[t] # Zeros
                            => item.context_padded[t].file[1] = item.pid

SplitsDisjointWitness ==
    /\ data_pc = "delivered"
    /\ train_items # <<>>
    /\ val_items # <<>>
    /\ test_items # <<>>

\* the label of the visit that follows row r in a table of visits
FollowingLabel(table, r) ==
    LET later == {q \in PatientRows(table, r.PatientID) : q.EventDate > r.EventDate}
    IN  (CHOOSE q \in later : \A q2 \in later : q.EventDate <= q2.EventDate).label

\* C8: the context of the window with local index j holds only embeddings of
\* the patient's rows at positions <= j and ends with row j's; its target is
\* 1 exactly when some row at a position <= j has next_label = 1, next_label
\* being the label of the visit that follows the row.
OneStepAhead ==
    Built =>
        /\ \A i \in DOMAIN metadata :
              metadata[i].next_label = FollowingLabel(visits, metadata[i])
        /\ LET hist == Histories(metadata)
           IN  \A w \in AllWindows :
                  LET j == w.local_index
                      n == Len(w.context)
                      rows == hist[w.pid]
                  IN  /\ j < Len(rows)
                      /\ n >= 1
                      /\ w.context[n] = rows[j + 1].embedding
                      /\ \A t \in 1..n : \E k \in 0..j :
                            w.context[t] = rows[k + 1].embedding
                      /\ w.target = 1 <=> \E k \in 0..j : rows[k + 1].next_label = 1

\* a window whose target is 1 while the last context visit's own label is 0
OneStepAheadWitness ==
    /\ Built
    /\ \E w \in AllWindows :
          /\ w.target = 1
          /\ RowAt(metadata, w.pid, w.local_index).label = 0
          /\ Len(w.context) > 1

(***************************************************************************)
(* Properties of train_and_evaluate: the halt of the epoch loop, the       *)
(* checkpoint, the parameters the test evaluation uses.  Epochs are        *)
(* numbered from 1; val_log[e] is the mean validation loss of epoch e.     *)
(***************************************************************************)
PostLoop == train_pc \in {"reload", "evaluate", "returned", "error"}

\* epoch e's loss is below inf and below every loss of an earlier epoch
Improves(log, e) ==
    /\ FloatLess(log[e], Inf)
    /\ \A j \in 1..(e - 1) : isnan(log[j]) \/ log[j].k = "inf" \/ FloatLess(log[e], log[j])

\* the epoch of the last strict improvement, 0 if there is none
LastImprovement(log) ==
    SetMax({0} \cup {e \in 1..Len(log) : Improves(log, e)})

\* no epoch's loss is below epoch e's (a nan compares below nothing)
AttainsMinimum(log, e) ==
    /\ ~isnan(log[e])
    /\ \A j \in 1..Len(log) : ~FloatLess(log[j], log[e])

\* the first epoch attaining the minimum validation loss, 0 if every loss is nan
FirstMinEpoch(log) ==
    SetMin({e \in 1..Len(log) : AttainsMinimum(log, e)} \cup {Len(log) + 1}) % (Len(log) + 1)

\* the checkpoint file holds parameters saved by this run
CheckpointWritten ==
    /\ checkpoint_files[best_model_path(model_name)] # None
    /\ checkpoint_files[best_model_path(model_name)][1] # StaleWeights

\* C5, as stated: with the last strict improvement at epoch k >= 1, the loop
\* has run exactly k + patience epochs when it ends, or all the configured
\* epochs if those are fewer.
HaltsAtKPlusPatience ==
    (PostLoop /\ LastImprovement(val_log) >= 1) =>
        epoch = Min2(epochs, LastImprovement(val_log) + patience)

\* C5, amended: with the last strict improvement at epoch k >= 1, the loop has
\* run exactly k + max(patience, 1) epochs when it ends, or all the
\* configured epochs if those are fewer; it breaks only at k + max(patience, 1).
HaltsAtKPlusPatienceAtLeastOne ==
    (PostLoop /\ LastImprovement(val_log) >= 1) =>
        /\ epoch = Min2(epochs, LastImprovement(val_log) + Max2(patience, 1))
        /\ early_stop <=> epoch = LastImprovement(val_log) + Max2(patience, 1)

\* an early stop two epochs after the last improvement, epochs to spare
HaltsAtKPlusPatienceWitness ==
    /\ train_pc = "reload"
    /\ early_stop
    /\ patience = 2
    /\ LastImprovement(val_log) >= 1
    /\ epoch = LastImprovement(val_log) + 2
    /\ epoch < epochs

\* C6: when the test evaluation runs after at least one epoch, the model holds
\* the parameters it had at the end of the first epoch attaining the minimum
\* validation loss.
EvaluatesFirstBestEpoch ==
    (train_pc \in {"evaluate", "returned"} /\ epoch >= 1) =>
        model_weights[model_name] = FirstMinEpoch(val_log)

\* when this run wrote the checkpoint, the evaluation does use the first
\* epoch attaining the minimum
EvaluatesFirstBestEpochIfWritten ==
    (train_pc \in {"evaluate", "returned"} /\ CheckpointWritten) =>
        /\ FirstMinEpoch(val_log) >= 1
        /\ model_weights[model_name] = FirstMinEpoch(val_log)

\* C9: when the loop has ended after at least one epoch, this run has written
\* the checkpoint.
CheckpointWrittenIfEpochRan ==
    (train_pc = "reload" /\ epoch >= 1) => CheckpointWritten

\* the loop ends after epochs whose losses were all nan, nothing written
NoCheckpointAfterNaN ==
    /\ train_pc = "reload"
    /\ epoch >= 1
    /\ \A e \in 1..Len(val_log) : isnan(val_log[e])
    /\ ~CheckpointWritten

(***************************************************************************)
(* Properties of analyze_switches.                                         *)
(***************************************************************************)
\* the local indexes at which patient pid's records carry a 1 in column col
OnesOf(df, pid, col) ==
    {df[i].LocalIndex : i \in {k \in DOMAIN df : df[k].PatientID = pid /\ df[k][col] = 1}}

\* x is the least element of S, or is undefined when S is empty
IsLeastOrUndefined(x, S) ==
    IF S = {} THEN x = None
    ELSE /\ x # None
         /\ x[1] \in S
         /\ \A y \in S : x[1] <= y

\* C7: the analysis has exactly one row per patient of the records; in it
\* TrueSwitchIdx is the least LocalIndex with TrueLabel = 1 and PredSwitchIdx
\* the least with PredLabel = 1, each undefined if there is none, and
\* SwitchDifference is PredSwitchIdx - TrueSwitchIdx when both are defined,
\* undefined otherwise.
SwitchAnalysisCorrect ==
    switch_pc = "done" =>
        /\ \A i \in DOMAIN df_preds :
              \E g \in DOMAIN df_analysis : df_analysis[g].PatientID = df_preds[i].PatientID
        /\ \A g, h \in DOMAIN df_analysis :
              df_analysis[g].PatientID = df_analysis[h].PatientID => g = h
        /\ \A g \in DOMAIN df_analysis :
              LET row == df_analysis[g]
              IN  /\ \E i \in DOMAIN df_preds : df_preds[i].PatientID = row.PatientID
                  /\ IsLeastOrUndefined(row.TrueSwitchIdx,
                                        OnesOf(df_preds, row.PatientID, "TrueLabel"))
                  /\ IsLeastOrUndefined(row.PredSwitchIdx,
                                        OnesOf(df_preds, row.PatientID, "PredLabel"))
                  /\ IF row.TrueSwitchIdx # None /\ row.PredSwitchIdx # None
                     THEN /\ row.SwitchDifference # None
                          /\ row.SwitchDifference[1] =
                                row.PredSwitchIdx[1] - row.TrueSwitchIdx[1]
                     ELSE row.SwitchDifference = None

\* true first 1 at index 4 and predicted first 1 at index 6 give 2, next to a
\* patient with no predicted 1 and an undefined difference; the records came
\* in descending order
SwitchAnalysisWitness ==
    /\ switch_pc = "done"
    /\ Len(df_preds) >= 2
    /\ df_preds[1].LocalIndex > df_preds[2].LocalIndex
    /\ \E g, h \in DOMAIN df_analysis :
          /\ df_analysis[g].TrueSwitchIdx = Some(4)
          /\ df_analysis[g].PredSwitchIdx = Some(6)
          /\ df_analysis[g].SwitchDifference = Some(2)
          /\ df_analysis[h].TrueSwitchIdx = Some(0)
          /\ df_analysis[h].PredSwitchIdx = None
          /\ df_analysis[h].SwitchDifference = None

(***************************************************************************)
(* Properties of main's model phase.                                       *)
(***************************************************************************)
NamesOf(records) == [i \in DOMAIN records |-> records[i].name]

\* without torchdiffeq the Neural ODE model is left as constructed: no call of
\* train_and_evaluate for it, no result, no forward, no switch analysis
OdeUntouched ==
    /\ ODE \notin forward_called
    /\ train_pc # "idle" => model_name # ODE
    /\ model_weights[ODE] = 0
    /\ results[ODE] = None
    /\ ODE \notin Range(summary)
    /\ ODE \notin Range(models)
    /\ ODE \notin Range(NamesOf(analysed))

\* past line 559 the notice is logged and the five models have their results;
\* the summary and the analysis, once made, cover exactly the five
FiveComplete ==
    /\ main_pc # "error"
    /\ main_pc \in {"summary", "analysis", "done"} =>
          /\ SkipNotice \in Range(main_log)
          /\ train_pc = "returned"
          /\ \A i \in DOMAIN FiveModels : results[FiveModels[i]] # None
    /\ main_pc \in {"analysis", "done"} =>
          /\ summary = FiveModels
          /\ models = FiveModels
    /\ main_pc = "done" => NamesOf(analysed) = FiveModels

\* C10: while TORCHDIFFEQ_AVAILABLE is false, main never trains, evaluates or
\* analyses the Neural ODE model and never calls its forward; it logs the
\* notice, and from the skip at line 558 it goes on to finish the summary
\* and the switch analysis of the five other models.
OdeSkippedRunContinues ==
    /\ [](~TORCHDIFFEQ_AVAILABLE => (OdeUntouched /\ FiveComplete))
    /\ (~TORCHDIFFEQ_AVAILABLE /\ main_pc = "summary") ~> (main_pc = "done")

\* the run is over without torchdiffeq: notice logged, five models analysed
OdeSkippedWitness ==
    /\ ~TORCHDIFFEQ_AVAILABLE
    /\ main_pc = "done"
    /\ SkipNotice \in Range(main_log)
    /\ Len(analysed) = Len(FiveModels)
    /\ ODE \notin forward_called

(***************************************************************************)
(* Properties of the stage filter (lines 456-459).                         *)
(***************************************************************************)
\* the rows of the file whose stage clean_ckd_stage does not resolve
Unresolved == {i \in DOMAIN csv : isnan(clean_ckd_stage(csv[i].CKD_stage))}

Labelled == data_pc \in {"labelled", "shifted", "filtered", "split", "built", "delivered"}

\* C11: once the stages are cleaned, no row with an unresolved stage is left
\* in the table, so that none gives an embedding to a context or a label to
\* a target.
UnresolvedRowsDropped ==
    /\ Labelled =>
          \A r \in DOMAIN metadata : \A i \in Unresolved :
              metadata[r].embedding_file # csv[i].embedding_file
    /\ Built =>
          \A w \in AllWindows : \A t \in DOMAIN w.context : \A i \in Unresolved :
              w.context[t] # Embedding(csv[i].embedding_file)

\* what the code does: an unresolved row stays exactly when a later visit of
\* the patient has a resolved stage, and it carries that visit's stage
UnresolvedRowsBackfilled ==
    data_pc = "labelled" =>
        \A i \in DOMAIN csv :
            LET later == {k \in DOMAIN csv :
                            /\ csv[k].PatientID = csv[i].PatientID
                            /\ csv[k].EventDate >= csv[i].EventDate
                            /\ ~isnan(clean_ckd_stage(csv[k].CKD_stage))}
                kept == {r \in DOMAIN metadata :
                            metadata[r].embedding_file = csv[i].embedding_file}
            IN  IF later = {} THEN kept = {}
                ELSE \E k \in later :
                        /\ \A j \in later : csv[k].EventDate <= csv[j].EventDate
                        /\ \A r \in kept : metadata[r].CKD_stage_clean =
                                              clean_ckd_stage(csv[k].CKD_stage).v
                        /\ Cardinality(kept) = 1

\* an unresolved visit's embedding is the context of a training window
UnresolvedRowInContext ==
    /\ Built
    /\ \E w \in AllWindows : \E i \in Unresolved :
          w.context[Len(w.context)] = Embedding(csv[i].embedding_file)

(***************************************************************************)
(* Properties of the learning-rate schedule.  lr_log[e] is the rate epoch  *)
(* e trained with, lr_log[e + 1] the rate after its scheduler step.        *)
(***************************************************************************)
\* the best loss the scheduler holds after epoch e
RECURSIVE SchedulerBest(_, _)
SchedulerBest(log, e) ==
    IF e = 0 THEN Inf
    ELSE IF is_better(log[e], SchedulerBest(log, e - 1)) THEN log[e]
         ELSE SchedulerBest(log, e - 1)

NoImprovement(log, e) == ~is_better(log[e], SchedulerBest(log, e - 1))

RateChanged(rates, e) == rates[e + 1] # rates[e]

\* the consecutive epochs without improvement up to and including e, counted
\* from the last improvement or the last change of the rate
RECURSIVE BadRun(_, _, _)
BadRun(log, rates, e) ==
    IF e = 0 THEN 0
    ELSE IF ~NoImprovement(log, e) THEN 0
    ELSE IF e > 1 /\ RateChanged(rates, e - 1) THEN 1
    ELSE 1 + BadRun(log, rates, e - 1)

\* C12, as stated: the rate changes at the end of an epoch exactly when the
\* epoch completes scheduler_patience consecutive epochs without
\* improvement, and it is then halved.
HalvedAfterSchedulerPatience ==
    scheduler_patience >= 1 =>
        \A e \in 1..Len(val_log) :
            /\ RateChanged(lr_log, e) <=> BadRun(val_log, lr_log, e) = scheduler_patience
            /\ RateChanged(lr_log, e) => lr_log[e + 1] * 2 = lr_log[e]

\* C12, amended: the rate changes at the end of an epoch exactly when the
\* epoch completes scheduler_patience + 1 consecutive epochs without an
\* improvement beyond the scheduler's threshold and the halving moves the
\* rate by more than eps; it is then halved.
HalvedAfterSchedulerPatiencePlusOne ==
    /\ Len(lr_log) = Len(val_log) + 1
    /\ lr = lr_log[Len(lr_log)]
    /\ \A e \in 1..Len(val_log) :
          /\ RateChanged(lr_log, e) <=>
                /\ BadRun(val_log, lr_log, e) = scheduler_patience + 1
                /\ lr_log[e] - (lr_log[e] \div 2) > EpsUnits
          /\ RateChanged(lr_log, e) => lr_log[e + 1] * 2 = lr_log[e]

\* with scheduler patience 1, a rate halved at the end of an epoch whose loss
\* was lower than the epoch before, by less than the threshold
HalvedWitness ==
    /\ scheduler_patience = 1
    /\ \E e \in 2..Len(val_log) :
          /\ RateChanged(lr_log, e)
          /\ FloatLess(val_log[e], val_log[e - 1])
          /\ BadRun(val_log, lr_log, e) = 2

(***************************************************************************)
(* Properties of clean_ckd_stage.                                          *)
(***************************************************************************)
\* the integer the cell parses as, if it does
ParsesAs(value, n) ==
    \/ value.t = "int" /\ n = value.n
    \/ value.t = "float" /\ value.f.k = "fin" /\ n = value.f.v
    \/ /\ value.t = "str"
       /\ value.s # <<>>
       /\ \A i \in DOMAIN value.s : isdigit(value.s[i])
       /\ n = ParseDigits(value.s, 0)

Parses(value) == \E n \in 0..(10 * 10 * 10 * 10) : ParsesAs(value, n)

DigitLed(value) == value.t = "str" /\ value.s # <<>> /\ isdigit(value.s[1])

\* the cell is followed by the claimed rule: the parsed integer, else the
\* leading digit, else unresolved
FollowsRule(value, out) ==
    IF Parses(value) THEN out.k = "fin" /\ ParsesAs(value, out.v)
    ELSE IF DigitLed(value) THEN out = Fin(DigitVal(value.s[1]))
    ELSE out = NaN

\* C13: the call returns for every cell, with an integer or the unresolved
\* marker: the parsed integer, else the leading digit, else unresolved.
CleanStageTotal ==
    clean_pc = "done" =>
        /\ stage_clean # Raise
        /\ FollowsRule(raw_stage, stage_clean)

\* the rule holds for every cell on which the call returns, and the call
\* raises exactly on None, the empty string and an infinite float
CleanStageWhereItReturns ==
    clean_pc = "done" =>
        IF raw_stage = RawNone \/ raw_stage = RawStr(<<>>) \/ raw_stage = RawFloat(Inf)
        THEN stage_clean = Raise
        ELSE FollowsRule(raw_stage, stage_clean)

\* the call on None has raised
CleanStageRaisesOnNone ==
    /\ clean_pc = "done"
    /\ raw_stage = RawNone
    /\ stage_clean = Raise

(***************************************************************************)
(* Frame properties of main: the models' parameters after their training.  *)
(***************************************************************************)
Returned(name) == results[name] # None

\* a step leaves the parameters of every model whose training has returned
WeightsKept ==
    \A name \in ModelNames :
        Returned(name) => model_weights'[name] = model_weights[name]

\* the parameters of a returned model are those that gave its metrics, and
\* they are the content of its own checkpoint file whenever this run wrote it
\* (one file per model, line 330)
WeightsAreReported ==
    /\ \A name \in ModelNames :
          Returned(name) =>
              /\ model_weights[name] = results[name][1].weights
              /\ checkpoint_files[best_model_path(name)] = Some(model_weights[name])
    /\ \A i \in DOMAIN analysed :
          /\ Returned(analysed[i].name)
          /\ analysed[i].weights = results[analysed[i].name][1].weights
    /\ \A a, b \in ModelNames : best_model_path(a) = best_model_path(b) => a = b

\* C14: once train_and_evaluate has returned for a model, no step of main
\* changes the model's parameters, and the switch analysis of each model uses
\* the reloaded checkpoint parameters that gave its reported metrics.
WeightsFrame == [](WeightsAreReported) /\ [][WeightsKept]_vars

\* the run is over with all six models analysed, the first on the parameters
\* of its first epoch although it trained for two, the last on those of its
\* second
WeightsFrameWitness ==
    /\ main_pc = "done"
    /\ Len(analysed) = Len(FiveModels) + 1
    /\ Len(val_log) = 2
    /\ analysed[1].weights = 1
    /\ analysed[Len(analysed)].weights = 2
    /\ \A name \in ModelNames : model_weights[name] = results[name][1].weights

====
